---- MODULE Spec2Model ----
(***************************************************************************)
(* A model of src/main.js: the graph viewer that fetches two collections   *)
(* (users, groups), builds one node per record, and on a click fetches the *)
(* relationships of the picked node, draws one line per resolved           *)
(* relationship and shows an info panel.                                   *)
(*                                                                         *)
(* JavaScript values are modelled as tagged records.  A missing field      *)
(* (undefined) and a falsy id are both written 0: the code only ever tests *)
(* ids with ||, && and ===, which cannot tell the two apart once the left  *)
(* operand of === is known to be truthy.                                   *)
(***************************************************************************)
EXTENDS Integers, Sequences, FiniteSets

VARIABLES
    graph,        \* where createGraph is: "loading", "skipped", "built", "threw"
    loaded,       \* history: the two HTTP outcomes createGraph's fetchNodes saw
    nodes,        \* the `nodes` array: userData of each sphere, in push order
    lines,        \* the `lines` array: the tracked Line objects
    sceneLines,   \* the Line objects that are children of `scene`
    selectedNode, \* 0 is null, otherwise an index into nodes
    panels,       \* the DOM elements with id 'node-info' under document.body
    pending,      \* displayNodeInfo calls suspended at their await, oldest first
    clicks,       \* history: the number of click events handled so far
    last,         \* history: the relationship fetch that completed most recently
    uncaught      \* the async functions whose promise rejected with a TypeError

vars == <<graph, loaded, nodes, lines, sceneLines, selectedNode, panels,
          pending, clicks, last, uncaught>>

----------------------------------------------------------------------------
(* Bounds of the model *)

\* the longest record list a collection response carries
MaxRecs == 2
\* the longest relationships list a relationship response carries
MaxRels == 2
\* the number of click events explored
MaxClicks == 3

----------------------------------------------------------------------------
(* JSON values and HTTP outcomes *)

\* JSON null, and the null logFetch returns from its catch block
Null == [t |-> "null"]
\* a JSON object with neither a length nor a relationships field,
\* e.g. {"detail": "Not found"}
ErrObj == [t |-> "object"]
\* a JSON array
Arr(s) == [t |-> "array", items |-> s]
\* a JSON object with a relationships array
RelObj(s) == [t |-> "object", relationships |-> s]

\* a record of a collection: {id?, user_id?, group_id?, ...}
Rec(i, u, g) == [id |-> i, user_id |-> u, group_id |-> g]

\* what fetch() and response.json() can do: fetch rejects (net = FALSE), or it
\* resolves with a 2xx (ok) or another status, and the body then parses
\* (json = TRUE, giving data) or response.json() rejects
NetErr == [net |-> FALSE, ok |-> FALSE, json |-> FALSE, data |-> Null]
Http(ok, json, data) == [net |-> TRUE, ok |-> ok, json |-> json, data |-> data]
\* a 2xx response whose body parses to `body`
Ok(body) == Http(TRUE, TRUE, body)

Outcomes(bodies) ==
    {NetErr} \cup {Http(ok, FALSE, Null) : ok \in BOOLEAN}
             \cup {Http(ok, TRUE, b) : ok \in BOOLEAN, b \in bodies}

\* sequences over S of length at most n
SeqUpTo(S, n) == UNION {[1..k -> S] : k \in 0..n}

Truthy(v) == v.t # "null"

----------------------------------------------------------------------------
(* logFetch, fetchNodes *)

\* response.ok is never read: only a rejected fetch() or a rejected
\* response.json() reaches the catch block
logFetch(o) ==
    IF o.net /\ o.json THEN o.data ELSE Null

\* fetchNodeRelationships(nodeId, nodeType): logFetch on that node's URL; o is
\* what the request for it ends in
fetchNodeRelationships(nodeId, nodeType, o) == logFetch(o)

\* a plausible slip: one failed collection empties both
fetchNodes_allOrNothing(uo, go) ==
    LET usersResponse == logFetch(uo)
        groupsResponse == logFetch(go)
        both == Truthy(usersResponse) /\ Truthy(groupsResponse)
    IN  [users  |-> IF both THEN usersResponse ELSE Arr(<<>>),
         groups |-> IF both THEN groupsResponse ELSE Arr(<<>>)]

fetchNodes(uo, go) ==
    LET usersResponse == logFetch(uo)
        groupsResponse == logFetch(go)
    IN  [users  |-> IF Truthy(usersResponse) THEN usersResponse ELSE Arr(<<>>),
         groups |-> IF Truthy(groupsResponse) THEN groupsResponse ELSE Arr(<<>>)]

----------------------------------------------------------------------------
(* createGraph *)

\* x.length for the values createGraph can hold: undefined (-1) unless an array
Length(v) == IF v.t = "array" THEN Len(v.items) ELSE -1

\* sphere.userData of a user record: the spread keeps the record's own fields,
\* type and user_id are then overwritten
userNode(user) ==
    [type     |-> "user",
     id       |-> user.id,
     user_id  |-> IF user.user_id # 0 THEN user.user_id ELSE user.id,
     group_id |-> user.group_id]

\* sphere.userData of a group record
groupNode(group) ==
    [type     |-> "group",
     id       |-> group.id,
     user_id  |-> group.user_id,
     group_id |-> IF group.group_id # 0 THEN group.group_id ELSE group.id]

\* a plausible slip: the user nodes are registered in reverse (unshift for push)
userNodes_reversed(users) ==
    [i \in 1..Len(users) |-> userNode(users[Len(users) + 1 - i])]

\* users.forEach(user => ... nodes.push(sphere)): one push per record, in order
userNodes(users) == [i \in 1..Len(users) |-> userNode(users[i])]

\* groups.forEach(group => ... nodes.push(sphere))
groupNodes(groups) == [i \in 1..Len(groups) |-> groupNode(groups[i])]

\* a plausible slip: the empty check is missing, so two empty collections run
\* through both loops
createGraph_noEmptyCheck(uo, go) ==
    LET f == fetchNodes(uo, go)
        users == f.users
        groups == f.groups
    IN  IF users.t # "array"
        THEN [end |-> "threw", pushed |-> <<>>]
        ELSE IF groups.t # "array"
        THEN [end |-> "threw", pushed |-> userNodes(users.items)]
        ELSE [end |-> "built",
              pushed |-> userNodes(users.items) \o groupNodes(groups.items)]

\* the run of createGraph after its await: where it ends and what it pushed.
\* forEach on a value that is not an array is a TypeError, which rejects the
\* promise createGraph returned; nothing awaits or catches it.
createGraph(uo, go) ==
    LET f == fetchNodes(uo, go)
        users == f.users
        groups == f.groups
    IN  IF Length(users) = 0 /\ Length(groups) = 0
        THEN [end |-> "skipped", pushed |-> <<>>]
        ELSE IF users.t # "array"
        THEN [end |-> "threw", pushed |-> <<>>]
        ELSE IF groups.t # "array"
        THEN [end |-> "threw", pushed |-> userNodes(users.items)]
        ELSE [end |-> "built",
              pushed |-> userNodes(users.items) \o groupNodes(groups.items)]

\* a plausible slip: createGraph is started again after it ran (a second
\* listener or a reload button), pushing the nodes a second time
CreateGraph_again(uo, go) ==
    /\ LET r == createGraph(uo, go)
       IN  /\ graph' = r.end
           /\ nodes' = nodes \o r.pushed
           /\ uncaught' = IF r.end = "threw"
                          THEN uncaught \cup {"createGraph"} ELSE uncaught
    /\ loaded' = [users |-> uo, groups |-> go]
    /\ UNCHANGED <<lines, sceneLines, selectedNode, panels, pending, clicks, last>>

\* DOMContentLoaded: createGraph() resumes once both collection fetches settled
CreateGraph(uo, go) ==
    /\ graph = "loading"
    /\ LET r == createGraph(uo, go)
       IN  /\ graph' = r.end
           /\ nodes' = nodes \o r.pushed
           /\ uncaught' = IF r.end = "threw"
                          THEN uncaught \cup {"createGraph"} ELSE uncaught
    /\ loaded' = [users |-> uo, groups |-> go]
    /\ UNCHANGED <<lines, sceneLines, selectedNode, panels, pending, clicks, last>>

----------------------------------------------------------------------------
(* The selection: clearConnections, clearSelection, updateNodeInfoDisplay *)

\* the part of the state the selection code writes
Sel == [lines |-> lines, sceneLines |-> sceneLines, panels |-> panels,
        selectedNode |-> selectedNode]

\* scene.remove(line): detaches that child; a line is found by its first
\* occurrence (two lines with equal endpoints are interchangeable here)
RECURSIVE sceneRemove(_, _)
sceneRemove(scene, line) ==
    IF scene = <<>> THEN <<>>
    ELSE IF Head(scene) = line THEN Tail(scene)
    ELSE <<Head(scene)>> \o sceneRemove(Tail(scene), line)

RECURSIVE sceneRemoveAll(_, _)
sceneRemoveAll(scene, ls) ==
    IF ls = <<>> THEN scene
    ELSE sceneRemoveAll(sceneRemove(scene, Head(ls)), Tail(ls))

\* a plausible slip: the list is emptied without detaching its lines
clearConnections_keepsScene(s) == [s EXCEPT !.lines = <<>>]

\* lines.forEach(line => scene.remove(line)); lines = []
clearConnections(s) ==
    [s EXCEPT !.sceneLines = sceneRemoveAll(s.sceneLines, s.lines),
              !.lines = <<>>]

\* if (selectedNode) { remove #node-info; clearConnections(); selectedNode = null }
\* getElementById returns the first element with that id
clearSelection(s) ==
    IF s.selectedNode # 0
    THEN LET t == clearConnections(s)
         IN  [t EXCEPT !.panels = IF s.panels = <<>> THEN <<>> ELSE Tail(s.panels),
                       !.selectedNode = 0]
    ELSE s

\* a plausible slip: a new div is created on every call
updateNodeInfoDisplay_alwaysCreates(s, node) ==
    [s EXCEPT !.panels = s.panels \o <<[of |-> node]>>]

\* getElementById('node-info') || createElement('div'); innerHTML from data;
\* appendChild moves an element that is already in the body to its end
updateNodeInfoDisplay(s, node) ==
    [s EXCEPT !.panels = IF s.panels = <<>>
                         THEN <<[of |-> node]>>
                         ELSE Tail(s.panels) \o <<[of |-> node]>>]

\* the request displayNodeInfo issues: fetchNodeRelationships(
\*   data.user_id || data.group_id, data.type)
Request(n) ==
    LET data == nodes[n]
    IN  [node |-> n,
         id   |-> IF data.user_id # 0 THEN data.user_id ELSE data.group_id,
         type |-> data.type,
         seq  |-> clicks + 1]

\* a click: hit is intersects[0].object, 0 when the ray meets no node.
\* displayNodeInfo runs up to its await within the same task.
onDocumentClick(hit) ==
    /\ clicks < MaxClicks
    /\ clicks' = clicks + 1
    /\ IF hit > 0
       THEN LET s1 == clearSelection(Sel)
                s2 == [s1 EXCEPT !.selectedNode = hit]
                s3 == clearConnections(s2)
            IN  /\ lines' = s3.lines
                /\ sceneLines' = s3.sceneLines
                /\ panels' = s3.panels
                /\ selectedNode' = s3.selectedNode
                /\ pending' = Append(pending, Request(hit))
       ELSE LET s1 == clearSelection(Sel)
            IN  /\ lines' = s1.lines
                /\ sceneLines' = s1.sceneLines
                /\ panels' = s1.panels
                /\ selectedNode' = s1.selectedNode
                /\ pending' = pending
    /\ UNCHANGED <<graph, loaded, nodes, last, uncaught>>

----------------------------------------------------------------------------
(* displayNodeInfo after its await *)

\* the predicate of nodes.find in displayNodeInfo
matches(n, rel) ==
    \/ (n.user_id # 0 /\ n.user_id = rel.user_id)
    \/ (n.group_id # 0 /\ n.group_id = rel.group_id)

\* nodes.find(...): the first node in push order that matches, 0 for undefined
find(rel) ==
    IF \E j \in 1..Len(nodes) : matches(nodes[j], rel)
    THEN CHOOSE j \in 1..Len(nodes) :
            /\ matches(nodes[j], rel)
            /\ \A k \in 1..(j - 1) : ~matches(nodes[k], rel)
    ELSE 0

\* a plausible slip: an entry that leads back to the picked node is skipped
RECURSIVE drawn_noSelfLoop(_, _)
drawn_noSelfLoop(node, relationships) ==
    IF relationships = <<>> THEN <<>>
    ELSE LET targetNode == find(Head(relationships))
             rest == drawn_noSelfLoop(node, Tail(relationships))
         IN  IF targetNode # 0 /\ targetNode # node
             THEN <<[src |-> node, tgt |-> targetNode]>> \o rest
             ELSE rest

\* relationships.forEach(rel => ...): one line per entry whose target is found,
\* in the order of the list
RECURSIVE drawn(_, _)
drawn(node, relationships) ==
    IF relationships = <<>> THEN <<>>
    ELSE LET targetNode == find(Head(relationships))
             rest == drawn(node, Tail(relationships))
         IN  IF targetNode # 0
             THEN <<[src |-> node, tgt |-> targetNode]>> \o rest
             ELSE rest

\* relationshipsData ? relationshipsData.relationships : []
\* (a truthy value without that field gives undefined)
HasRelationships(relationshipsData) ==
    ~Truthy(relationshipsData) \/ "relationships" \in DOMAIN relationshipsData

relationshipsOf(relationshipsData) ==
    IF Truthy(relationshipsData) THEN relationshipsData.relationships ELSE <<>>

NoFetch == [seq |-> 0, node |-> 0, data |-> Null, threw |-> FALSE,
            overlay |-> <<>>]

\* the relationship fetch of pending[i] settles with outcome o and
\* displayNodeInfo runs from its await to its end
DisplayNodeInfo(i, o) ==
    /\ i \in 1..Len(pending)
    /\ LET r == pending[i]
           relationshipsData == fetchNodeRelationships(r.id, r.type, o)
       IN  /\ pending' = SubSeq(pending, 1, i - 1)
                         \o SubSeq(pending, i + 1, Len(pending))
           /\ IF HasRelationships(relationshipsData)
              THEN LET new == drawn(r.node, relationshipsOf(relationshipsData))
                       s1 == [Sel EXCEPT !.lines = lines \o new,
                                         !.sceneLines = sceneLines \o new]
                       s2 == updateNodeInfoDisplay(s1, r.node)
                   IN  /\ lines' = s2.lines
                       /\ sceneLines' = s2.sceneLines
                       /\ panels' = s2.panels
                       /\ uncaught' = uncaught
              ELSE \* undefined.forEach: TypeError, the rest is skipped
                   /\ uncaught' = uncaught \cup {"displayNodeInfo"}
                   /\ UNCHANGED <<lines, sceneLines, panels>>
           /\ last' = [seq |-> r.seq, node |-> r.node,
                       data |-> relationshipsData,
                       threw |-> ~HasRelationships(relationshipsData),
                       overlay |-> lines']
    /\ UNCHANGED <<graph, loaded, nodes, selectedNode, clicks>>

----------------------------------------------------------------------------
(* Inputs *)

\* records of GET /users/: a generic id, a user_id, both, and one that
\* also carries a group_id
UserRecords == {Rec(1, 0, 0), Rec(0, 2, 0), Rec(2, 1, 0), Rec(1, 0, 2)}

\* records of GET /groups/: likewise, the last one carries a user_id
GroupRecords == {Rec(1, 0, 0), Rec(0, 0, 2), Rec(2, 0, 1), Rec(2, 1, 0)}

\* bodies of a collection response: null, an error object, a list of records
CollectionBodies(records) ==
    {Null, ErrObj} \cup {Arr(s) : s \in SeqUpTo(records, MaxRecs)}

\* entries of a relationships list: {user_id?, group_id?}
Rel(u, g) == [user_id |-> u, group_id |-> g]

\* the references a relationships list is drawn from, in the server's order
Friends == <<Rel(1, 0), Rel(0, 2), Rel(2, 0), Rel(0, 1)>>

\* the relationships lists explored: the server's list cut at any length
RelLists == {SubSeq(Friends, 1, k) : k \in 0..MaxRels}

\* bodies of a relationships response: null, an error object, or an object
\* with a relationships list
RelBodies == {Null, ErrObj} \cup {RelObj(s) : s \in RelLists}

\* what a relationships request can end in: non-2xx answers carry an error
\* object or a body that does not parse
RelOutcomes ==
    {NetErr, Http(TRUE, FALSE, Null), Http(FALSE, FALSE, Null),
     Http(FALSE, TRUE, ErrObj)}
    \cup {Ok(b) : b \in RelBodies}

----------------------------------------------------------------------------
(* Specifications *)

Init ==
    /\ graph = "loading"
    /\ loaded = [users |-> NetErr, groups |-> NetErr]
    /\ nodes = <<>>
    /\ lines = <<>>
    /\ sceneLines = <<>>
    /\ selectedNode = 0
    /\ panels = <<>>
    /\ pending = <<>>
    /\ clicks = 0
    /\ last = NoFetch
    /\ uncaught = {}

\* collection responses explored together with the clicks: both fetches
\* failing, both lists empty, an error object under a non-2xx status, and
\* record lists (one user alone; a user and a group whose record also carries a
\* user_id; two users and a group that shares an id with one of them)
SampleLoads ==
    {<<NetErr, NetErr>>,
     <<Ok(Arr(<<>>)), Ok(Arr(<<>>))>>,
     <<Http(FALSE, TRUE, ErrObj), Ok(Arr(<<Rec(1, 0, 0)>>))>>,
     <<Ok(Arr(<<Rec(1, 0, 0)>>)), Ok(Arr(<<>>))>>,
     <<Ok(Arr(<<Rec(0, 2, 0)>>)), Ok(Arr(<<Rec(2, 1, 0)>>))>>,
     <<Ok(Arr(<<Rec(1, 0, 0), Rec(0, 2, 0)>>)), Ok(Arr(<<Rec(1, 0, 0)>>))>>}

Load ==
    \E uo \in Outcomes(CollectionBodies(UserRecords)),
       go \in Outcomes(CollectionBodies(GroupRecords)) : CreateGraph(uo, go)

LoadSample ==
    \E p \in SampleLoads : CreateGraph(p[1], p[2])

Click == \E hit \in 0..Len(nodes) : onDocumentClick(hit)

Settle ==
    \E i \in 1..Len(pending), o \in RelOutcomes : DisplayNodeInfo(i, o)

Next == LoadSample \/ Click \/ Settle

Spec == Init /\ [][Next]_vars

\* graph construction alone, over every bounded pair of collection responses
BuildNext == Load

BuildSpec == Init /\ [][BuildNext]_vars

----------------------------------------------------------------------------
(* Claims *)

\* a fetch that failed in transport or in parsing its body
Failed(o) == ~o.net \/ ~o.json

\* a fetch answered 2xx with a list of records
Succeeded(o) == o.net /\ o.ok /\ o.json /\ o.data.t = "array"

\* the records a collection fetch delivered: its list, nothing when it failed
RecordsOf(o) == IF ~Failed(o) /\ o.data.t = "array" THEN o.data.items ELSE <<>>

\* node n is the node of record rec of collection kind: that kind, the record's
\* generic id, and the kind-specific identity falling back to the generic id
IsNodeOf(kind, rec, n) ==
    /\ n.type = kind
    /\ n.id = rec.id
    /\ kind = "user" =>
          n.user_id = (IF rec.user_id # 0 THEN rec.user_id ELSE rec.id)
    /\ kind = "group" =>
          n.group_id = (IF rec.group_id # 0 THEN rec.group_id ELSE rec.id)

\* nodes[from + 1 .. from + Len(recs)] are the nodes of recs, in order
NodesAre(kind, recs, from) ==
    /\ Len(nodes) >= from + Len(recs)
    /\ \A k \in 1..Len(recs) : IsNodeOf(kind, recs[k], nodes[from + k])

\* C1: whenever no node is selected, no edge line is drawn (tracked or in the
\* scene) and the info panel does not exist.
C1_IdleHasNoOverlay ==
    selectedNode = 0 => (lines = <<>> /\ sceneLines = <<>> /\ panels = <<>>)

\* C2: whenever a node n is selected, every drawn line starts at n and the
\* drawn lines are exactly what the latest resolution of n produced; lines of
\* an earlier selection never coexist with them.
C2_OverlayIsOfSelection ==
    selectedNode # 0 =>
        /\ \A k \in 1..Len(lines) : lines[k].src = selectedNode
        /\ lines # <<>> =>
              /\ last.node = selectedNode
              /\ ~last.threw
              /\ lines = drawn(selectedNode, relationshipsOf(last.data))

\* C3: right after a click that hits no node, no edge line is drawn and no
\* info panel exists, whatever the state before the click.
C3_MissClears ==
    [][onDocumentClick(0) =>
          (lines' = <<>> /\ sceneLines' = <<>> /\ panels' = <<>>)]_vars

\* C4: when the resolution started by a pick of n has finished with a
\* relationships list, the number of drawn lines is the number of entries of
\* that list that match a known node, and every drawn line leads to the node
\* of such an entry.
C4_OverlayCountsResolved ==
    [][\A i \in 1..Len(pending), o \in RelOutcomes :
          (DisplayNodeInfo(i, o) /\ ~last'.threw) =>
             LET rels == relationshipsOf(last'.data)
                 known == {k \in 1..Len(rels) :
                             \E j \in 1..Len(nodes) : matches(nodes[j], rels[k])}
             IN  /\ Len(lines') = Cardinality(known)
                 /\ \A l \in 1..Len(lines') :
                       \E k \in known : matches(nodes[lines'[l].tgt], rels[k])
      ]_vars

\* C5: picking the selected node again issues one more relationship fetch, and
\* when the resolutions of two consecutive picks of the same node both finish
\* with the same data, the overlay after the later one is the overlay after
\* the earlier one.
C5_RepickRefetchesSameOverlay ==
    [][/\ \A n \in 1..Len(nodes) :
             (onDocumentClick(n) /\ selectedNode = n) =>
                 /\ Len(pending') = Len(pending) + 1
                 /\ pending'[Len(pending')].node = n
       /\ \A i \in 1..Len(pending), o \in RelOutcomes :
             (/\ DisplayNodeInfo(i, o)
              /\ last.seq # 0
              /\ last.seq \in {pending[i].seq - 1, pending[i].seq + 1}
              /\ last.node = pending[i].node
              /\ last.data = last'.data
              /\ ~last.threw) =>
                 lines' = last.overlay
      ]_vars

\* C6: fetchNodeRelationships returns null whenever the request failed (network
\* error, non-2xx status, unparsable body), and a non-null value only for a
\* successful response.
C6_NullOnAnyFailure ==
    [][\A i \in 1..Len(pending), o \in RelOutcomes :
          DisplayNodeInfo(i, o) =>
             /\ (~o.net \/ ~o.ok \/ ~o.json) => last'.data = Null
             /\ last'.data # Null => (o.net /\ o.ok /\ o.json)
      ]_vars

\* C7: when the relationship fetch yields null or an object without a
\* relationships list, no line is drawn, no exception escapes displayNodeInfo
\* and the info panel of the picked node is shown.
C7_NoListYieldsEmpty ==
    [][\A i \in 1..Len(pending), o \in RelOutcomes :
          (/\ DisplayNodeInfo(i, o)
           /\ (last'.data = Null \/ "relationships" \notin DOMAIN last'.data)) =>
             /\ lines' = lines
             /\ sceneLines' = sceneLines
             /\ uncaught' = uncaught
             /\ \E k \in 1..Len(panels') : panels'[k].of = pending[i].node
      ]_vars

\* C8: when exactly one of the two collection fetches fails (in transport or
\* in parsing) and the other delivers a list, createGraph ends without an
\* exception and the node list holds exactly one node per record of the
\* delivered list, of that collection's kind, and nothing else.
C8_OneFailureLeavesTheOther ==
    graph # "loading" =>
        /\ (Failed(loaded.users) /\ Succeeded(loaded.groups)) =>
              /\ uncaught = {}
              /\ graph \in {"built", "skipped"}
              /\ Len(nodes) = Len(RecordsOf(loaded.groups))
              /\ NodesAre("group", RecordsOf(loaded.groups), 0)
        /\ (Failed(loaded.groups) /\ Succeeded(loaded.users)) =>
              /\ uncaught = {}
              /\ graph \in {"built", "skipped"}
              /\ Len(nodes) = Len(RecordsOf(loaded.users))
              /\ NodesAre("user", RecordsOf(loaded.users), 0)

\* a graph built from two group records while the users fetch failed
C8_Witness ==
    /\ graph = "built"
    /\ Failed(loaded.users)
    /\ Succeeded(loaded.groups)
    /\ Len(RecordsOf(loaded.groups)) = 2
    /\ Len(nodes) = 2

\* C9: no outcome of the users, groups and relationships requests makes
\* createGraph or displayNodeInfo end in an uncaught exception.
C9_NoUncaughtException == uncaught = {}

\* C10: for all record lists users and groups, the node list holds exactly
\* |users| + |groups| nodes: the user nodes in the order of users, then the
\* group nodes in the order of groups, each of its collection's kind.
C10_OneNodePerRecordInOrder ==
    LET users == RecordsOf(loaded.users)
        groups == RecordsOf(loaded.groups)
    IN  (/\ graph # "loading"
         /\ (Failed(loaded.users) \/ loaded.users.data.t \in {"array", "null"})
         /\ (Failed(loaded.groups) \/ loaded.groups.data.t \in {"array", "null"}))
        => /\ Len(nodes) = Len(users) + Len(groups)
           /\ NodesAre("user", users, 0)
           /\ NodesAre("group", groups, Len(users))

\* a graph built from two different user records and two different group
\* records
C10_Witness ==
    LET users == RecordsOf(loaded.users)
        groups == RecordsOf(loaded.groups)
    IN  /\ graph = "built"
        /\ Len(users) = 2 /\ users[1].id # users[2].id
        /\ Len(groups) = 2 /\ groups[1].id # groups[2].id
        /\ Len(nodes) = 4

\* C11: with users = [{id: 1}], groups = [] and the relationships response
\* {relationships: [{user_id: 1}]}, the resolution of a pick of node 1 draws
\* exactly one line, from node 1 to node 1.
C11_SelfLoopIsDrawn ==
    [][\A i \in 1..Len(pending), o \in RelOutcomes :
          (/\ DisplayNodeInfo(i, o)
           /\ loaded = [users |-> Ok(Arr(<<Rec(1, 0, 0)>>)),
                        groups |-> Ok(Arr(<<>>))]
           /\ last'.data = RelObj(<<Rel(1, 0)>>)) =>
             /\ pending[i].node = 1
             /\ lines' = lines \o <<[src |-> 1, tgt |-> 1]>>
             /\ sceneLines' = sceneLines \o <<[src |-> 1, tgt |-> 1]>>
      ]_vars

\* the single pick of the one user node has resolved to its self-loop
C11_Witness ==
    /\ loaded = [users |-> Ok(Arr(<<Rec(1, 0, 0)>>)), groups |-> Ok(Arr(<<>>))]
    /\ clicks = 1
    /\ pending = <<>>
    /\ last.data = RelObj(<<Rel(1, 0)>>)
    /\ lines = <<[src |-> 1, tgt |-> 1]>>

\* C12: when both fetched collections are empty (an empty list, or a failed
\* fetch), graph construction is skipped: no node exists, nothing was thrown,
\* and every later click hits no node and leaves the selection empty.
C12_EmptyCollectionsSkipGraph ==
    (/\ graph # "loading"
     /\ (Failed(loaded.users) \/ loaded.users.data = Arr(<<>>))
     /\ (Failed(loaded.groups) \/ loaded.groups.data = Arr(<<>>)))
    => /\ graph = "skipped"
       /\ nodes = <<>>
       /\ uncaught = {}
       /\ selectedNode = 0
       /\ pending = <<>>
       /\ lines = <<>> /\ sceneLines = <<>> /\ panels = <<>>

\* two empty lists were fetched and every click explored has been handled
C12_Witness ==
    /\ graph = "skipped"
    /\ loaded.users.data = Arr(<<>>)
    /\ loaded.groups.data = Arr(<<>>)
    /\ clicks = MaxClicks
    /\ selectedNode = 0

\* the identity of a node: user_id for a user, group_id for a group
IdentityOf(n) == IF n.type = "user" THEN n.user_id ELSE n.group_id

\* node n is what entry rel refers to: a node of the kind of a field the entry
\* carries, whose identity is the entry's value of that field
RefersTo(rel, n) ==
    \/ (rel.user_id # 0 /\ n.type = "user" /\ IdentityOf(n) = rel.user_id)
    \/ (rel.group_id # 0 /\ n.type = "group" /\ IdentityOf(n) = rel.group_id)

\* the first node in build order that rel refers to, 0 when there is none
TargetOf(rel) ==
    IF \E j \in 1..Len(nodes) : RefersTo(rel, nodes[j])
    THEN CHOOSE j \in 1..Len(nodes) :
            /\ RefersTo(rel, nodes[j])
            /\ \A k \in 1..(j - 1) : ~RefersTo(rel, nodes[k])
    ELSE 0

\* the lines of the entries of rels that refer to a known node, in list order
RECURSIVE EdgesOf(_, _)
EdgesOf(node, rels) ==
    IF rels = <<>> THEN <<>>
    ELSE LET t == TargetOf(Head(rels))
         IN  (IF t # 0 THEN <<[src |-> node, tgt |-> t]>> ELSE <<>>)
             \o EdgesOf(node, Tail(rels))

\* C13: the lines a resolution draws are, in the order of the relationships
\* list, one per entry that refers to a known node, each to the first node in
\* build order whose identity equals the entry's reference on the entry's own
\* kind-specific field; an entry resolves through no other field.
C13_ResolvesByEntryKind ==
    [][\A i \in 1..Len(pending), o \in RelOutcomes :
          (DisplayNodeInfo(i, o) /\ ~last'.threw) =>
             lines' = lines \o EdgesOf(pending[i].node,
                                       relationshipsOf(last'.data))
      ]_vars

\* C14: every relationship request in flight carries the kind of its node and
\* that node's own identity (user_id of a user, group_id of a group), whatever
\* other fields the node's record carries.
C14_RequestUsesOwnIdentity ==
    \A k \in 1..Len(pending) :
        /\ pending[k].type = nodes[pending[k].node].type
        /\ pending[k].id = IdentityOf(nodes[pending[k].node])

\* C15: whenever the info panel exists, it was populated from the currently
\* selected node.
C15_PanelShowsSelection ==
    \A k \in 1..Len(panels) : panels[k].of = selectedNode

\* C16: once createGraph has run, no step changes the node list (no node is
\* added, removed, reordered or rewritten); the node list changes only in the
\* one step in which createGraph runs.
C16_NodesReadOnlyAfterBuild ==
    [][/\ graph # "loading" => nodes' = nodes
       /\ nodes' # nodes => (graph = "loading" /\ graph' # "loading")
      ]_vars

\* a built graph after every click explored, with a resolved overlay
C16_Witness ==
    /\ graph = "built"
    /\ Len(nodes) = 3
    /\ clicks = MaxClicks
    /\ pending = <<>>
    /\ lines # <<>>

\* C17: at most one info panel exists, however many picks and fetch
\* completions occurred.
C17_AtMostOnePanel == Len(panels) <= 1

\* two resolutions (of node 1 and of node 2) have both run
\* updateNodeInfoDisplay since the last click, and one panel exists
C17_Witness ==
    /\ Len(panels) = 1
    /\ pending = <<>>
    /\ \E k \in 1..Len(lines) : lines[k].src = 1
    /\ \E k \in 1..Len(lines) : lines[k].src = 2

\* C18: the lines in the scene are exactly the tracked lines, so clearing the
\* tracked list leaves no line in the scene.
C18_SceneLinesAreTracked == sceneLines = lines

\* lines were drawn after an earlier overlay had been cleared
C18_Witness ==
    /\ Len(lines) >= 2
    /\ sceneLines = lines
    /\ clicks >= 2
    /\ last.seq = clicks

====
